---- MODULE Spec2Model ----
(***************************************************************************)
(* Model of src/server.cpp: the key/value server made of                   *)
(*   - PersistentHashTable<std::string, uint64_t>  (the index: db,         *)
(*     pendingLog, the log file logs.txt, the snapshot file db.txt and the *)
(*     background thread running dropTable),                               *)
(*   - BinaryPersistentHashTable (the append-only value file values.bin),  *)
(*   - the part of main's event loop that drives them.                     *)
(*                                                                         *)
(* Text files are sequences of one-character strings, the value file is a  *)
(* sequence of bytes.  A std::ofstream holds what is written to it in its  *)
(* buffer until flush()/close(); opening with ios_base::trunc empties the  *)
(* file at once.  A FILE* holds fwrite's bytes in its buffer until an      *)
(* fseek or a regular exit.                                                *)
(***************************************************************************)
EXTENDS Integers, Sequences, FiniteSets, TLC

\* ------------------------------------------------------------------ bounds

\* Puts accepted over the whole history (the value file only grows).
MaxPuts == 2
\* Process stops (crash or shutdown) followed by a restart.
MaxRestarts == 1

\* Pairs in a file of the pair encoding.
MaxPairs == 2
\* Connections waiting to be accepted.
MaxBacklog == 2
\* Responses queued in the server, all connections together.
MaxQueue == 2

\* ------------------------------------------------------- program constants

\* sizeof(uint64_t): the width of the length field of a value record.
SizeofU64 == 8

\* ---------------------------------------------------------------- inputs

\* Keys of the requests: byte strings, here one character each.
Keys == { <<"a">>, <<"b">> }

\* Payloads of put requests: the empty payload and a non-empty one.
Payloads == { <<>>, <<1>> }

\* Keys as byte strings go: those of the requests, the empty key and a key
\* with a space in it.
AnyKeys == Keys \cup { <<>>, <<"a", " ", "b">> }

\* The descriptors accept can return: the process can hold no more.
Fds == { 1, 2 }

\* The request ids of the clients.
Ids == { 1, 2 }

\* The key and the payload of the requests of those clients.
ReqKeys == { <<"a">> }
ReqPayloads == { <<1>> }

\* What a read of an uninitialized std::string size can yield, cut to the
\* payloads and one string that was never put.
Garbage == Payloads \cup { <<0>> }

\* The null pointer PersistentHashTable::get returns for a missing key
\* (no offset is negative).
NULL == -1

\* ------------------------------------------------------------ text streams

Range(s) == { s[i] : i \in 1..Len(s) }

Digits == <<"0", "1", "2", "3", "4", "5", "6", "7", "8", "9">>

IsDigit(c) == \E d \in 1..10 : Digits[d] = c

DigitVal(c) == (CHOOSE d \in 1..10 : Digits[d] = c) - 1

\* isspace() over the characters the model writes.
IsSpace(c) == c = " "

\* operator<<(uint64_t) and operator<<(size_t): decimal digits.
RECURSIVE Decimal(_)
Decimal(n) ==
    IF n < 10 THEN << Digits[n + 1] >>
    ELSE Decimal(n \div 10) \o << Digits[(n % 10) + 1] >>

\* FileWriteReadStrategy::writeToFile: stream << k << ' ' << v << ' '.
writeToFile(k, v) == k \o <<" ">> \o Decimal(v) \o <<" ">>

\* The position of the first character at or after i that is not white
\* space (Len(s) + 1 at end of file): the skipws of a formatted extraction.
RECURSIVE SkipWs(_, _)
SkipWs(s, i) ==
    IF i > Len(s) THEN i
    ELSE IF IsSpace(s[i]) THEN SkipWs(s, i + 1) ELSE i

\* The position after the token starting at i: operator>>(std::string&)
\* reads up to the next white space.
RECURSIVE TokenEnd(_, _)
TokenEnd(s, i) ==
    IF i > Len(s) THEN i
    ELSE IF IsSpace(s[i]) THEN i ELSE TokenEnd(s, i + 1)

\* The position after the digits starting at i.
RECURSIVE DigitsEnd(_, _)
DigitsEnd(s, i) ==
    IF i > Len(s) THEN i
    ELSE IF IsDigit(s[i]) THEN DigitsEnd(s, i + 1) ELSE i

\* The number written by the digits s[i..j-1].
RECURSIVE DigitsVal(_, _, _)
DigitsVal(s, i, j) ==
    IF j <= i THEN 0
    ELSE 10 * DigitsVal(s, i, j - 1) + DigitVal(s[j - 1])

\* An input stream: the file's characters, the read position and failbit.
OpenIn(file) == [buf |-> file, pos |-> 1, fail |-> FALSE]

\* stream >> number.  A failed extraction stores 0 and sets failbit; on a
\* stream that has already failed nothing is stored, and the variable keeps
\* its indeterminate value (init).
ReadNumber(st, init) ==
    IF st.fail THEN [val |-> init, st |-> st]
    ELSE LET i == SkipWs(st.buf, st.pos)
             j == DigitsEnd(st.buf, i)
         IN  IF j = i THEN [val |-> 0, st |-> [st EXCEPT !.pos = i, !.fail = TRUE]]
             ELSE [val |-> DigitsVal(st.buf, i, j), st |-> [st EXCEPT !.pos = j]]

\* stream >> std::string.  Nothing extracted sets failbit and leaves the
\* string empty.
ReadString(st) ==
    IF st.fail THEN [val |-> <<>>, st |-> st]
    ELSE LET i == SkipWs(st.buf, st.pos)
             j == TokenEnd(st.buf, i)
         IN  IF j = i THEN [val |-> <<>>, st |-> [st EXCEPT !.pos = i, !.fail = TRUE]]
             ELSE [val |-> SubSeq(st.buf, i, j - 1), st |-> [st EXCEPT !.pos = j]]

\* The value of an uninitialized uint64_t that a failed stream left alone
\* (no offset is negative).
Indeterminate == -2

\* FileWriteReadStrategy::readFromFile: stream >> key >> value.
readFromFile(st) ==
    LET k == ReadString(st)
        v == ReadNumber(k.st, Indeterminate)
    IN  [key |-> k.val, value |-> v.val, st |-> v.st]

\* ------------------------------------------- PersistentHashTable, the data

\* db[key] = value on the unordered_map.
Assign(m, key, value) == (key :> value) @@ m

\* The empty unordered_map.
EmptyDb == [k \in {} |-> 0]

\* The std::pair pushed to pendingLog.
Pair(key, value) == [first |-> key, second |-> value]

\* put without the test of dropping.
putDbUnguarded(m, isDropping, key, value) == Assign(m, key, value)

\* put, lines 112-114: the map is written only when no snapshot runs.
putDb(m, isDropping, key, value) ==
    IF ~isDropping THEN Assign(m, key, value) ELSE m

\* put, line 111.
putLog(log, key, value) == Append(log, Pair(key, value))

\* get, lines 119-125: the scan from pendingLog.size() - 1 down to 0; the
\* index of the first match met, 0 when there is none.
RECURSIVE scanLog(_, _, _)
scanLog(log, i, key) ==
    IF i = 0 THEN 0
    ELSE IF log[i].first = key THEN i ELSE scanLog(log, i - 1, key)

\* get looking in db before pendingLog.
getDbFirst(log, m, key) ==
    IF key \in DOMAIN m THEN m[key]
    ELSE LET i == scanLog(log, Len(log), key)
         IN  IF i # 0 THEN log[i].second ELSE NULL

\* get, lines 117-132: the offset behind the pointer returned, or NULL.
get(log, m, key) ==
    LET i == scanLog(log, Len(log), key)
    IN  IF i # 0 THEN log[i].second
        ELSE IF key \notin DOMAIN m THEN NULL ELSE m[key]

\* The merge applying the pending entries from the last to the first.
RECURSIVE mergeLogBackwards(_, _)
mergeLogBackwards(m, log) ==
    IF log = <<>> THEN m
    ELSE mergeLogBackwards(Assign(m, log[Len(log)].first, log[Len(log)].second),
                           SubSeq(log, 1, Len(log) - 1))

\* dropLogs, lines 160-162: the pending entries applied in log order.
RECURSIVE mergeLog(_, _)
mergeLog(m, log) ==
    IF log = <<>> THEN m
    ELSE mergeLog(Assign(m, Head(log).first, Head(log).second), Tail(log))

\* dropLogs, lines 155-158: the count, then every pending entry.
RECURSIVE writeEntries(_)
writeEntries(log) ==
    IF log = <<>> THEN <<>>
    ELSE writeToFile(Head(log).first, Head(log).second) \o writeEntries(Tail(log))

serializeLog(log) == Decimal(Len(log)) \o <<" ">> \o writeEntries(log)

\* The orders in which a range-for can visit an unordered_map.
Orders(m) ==
    LET n == Cardinality(DOMAIN m)
    IN  { o \in [1..n -> DOMAIN m] : \A i, j \in 1..n : i # j => o[i] # o[j] }

\* dropTable, lines 140-143: the size, then every entry in iteration order.
serializeDb(m, order) ==
    Decimal(Cardinality(DOMAIN m)) \o <<" ">>
        \o writeEntries([i \in 1..Len(order) |-> Pair(order[i], m[order[i]])])

\* The constructor's loops, lines 93-96 and 102-105: cnt entries read and
\* assigned in file order.
RECURSIVE loadEntries(_, _, _)
loadEntries(m, st, cnt) ==
    IF cnt <= 0 THEN m
    ELSE LET p == readFromFile(st)
         IN  loadEntries(Assign(m, p.key, p.value), p.st, cnt - 1)

\* One file of the constructor, lines 90-97 and 99-106.  A missing file is
\* the empty sequence: good() skips it, and on an empty file the extraction
\* of cnt fails and stores 0, so both load nothing.
loadFile(m, file) ==
    LET c == ReadNumber(OpenIn(file), Indeterminate)
    IN  loadEntries(m, c.st, c.val)

\* The pairs the loops of lines 93-96 and 102-105 get from readFromFile, in
\* the order they are read.
RECURSIVE readEntries(_, _)
readEntries(st, cnt) ==
    IF cnt <= 0 THEN <<>>
    ELSE LET p == readFromFile(st)
         IN  << Pair(p.key, p.value) >> \o readEntries(p.st, cnt - 1)

\* The pairs the constructor reads from one file: the count, then the entries.
readPairs(file) ==
    LET c == ReadNumber(OpenIn(file), Indeterminate)
    IN  readEntries(c.st, c.val)

\* The constructor, lines 88-106: the snapshot file, then the log file.
recover(snapshot, log) == loadFile(loadFile(EmptyDb, snapshot), log)

\* --------------------------------------- BinaryPersistentHashTable, the data

\* fwrite(&sz, sizeof(uint64_t), 1, f): the bytes of sz, lowest first.
RECURSIVE EncodeBytes(_, _)
EncodeBytes(n, width) ==
    IF width = 0 THEN <<>>
    ELSE << n % 256 >> \o EncodeBytes(n \div 256, width - 1)

EncodeU64(n) == EncodeBytes(n, SizeofU64)

\* fread(&sz, sizeof(uint64_t), 1, f) on the bytes b.
RECURSIVE DecodeU64(_)
DecodeU64(b) ==
    IF b = <<>> THEN 0 ELSE b[1] + 256 * DecodeU64(Tail(b))

\* put, lines 211-214: the length field followed by the payload.
valueRecord(value) == EncodeU64(Len(value)) \o value

\* get, lines 204-205: a string of sz zero bytes over which fread lays the
\* bytes the file holds from position at (0-based) on.
readPayload(data, at, sz) ==
    [i \in 1..sz |-> IF at + i <= Len(data) THEN data[at + i] ELSE 0]

\* get, lines 201-205, on an offset the table returned: the payload read.
\* When fewer than 8 bytes follow the offset, fread stores nothing and sz is
\* an uninitialized read: ok is FALSE and the result is not determined.
readValue(data, offset) ==
    IF offset < 0 \/ Len(data) - offset < SizeofU64
    THEN [ok |-> FALSE, val |-> <<>>]
    ELSE [ok |-> TRUE,
          val |-> readPayload(data, offset + SizeofU64,
                      DecodeU64(SubSeq(data, offset + 1, offset + SizeofU64)))]

\* handle_get, lines 405-410: the response; the value field is set only for
\* a non-empty string, and an unset field reads as the empty string.
getResponse(ret) ==
    [type |-> "GET_RESPONSE", has |-> ret # <<>>, value |-> ret]

\* handle_put, lines 431-432.
putResponse == [type |-> "PUT_RESPONSE", has |-> FALSE, value |-> <<>>]

NoResponse == [type |-> "none", has |-> FALSE, value |-> <<>>]

\* The request a handler has just served (with what binaryDb.get returned).
NoRequest == [op |-> "none", key |-> <<>>, value |-> <<>>]

\* A request that does not decode, or of an unknown type.
BadRequest == [op |-> "bad", key |-> <<>>, value |-> <<>>]

\* ------------------------------------------------------------------ state

VARIABLES
    pendingLog,    \* PersistentHashTable::pendingLog
    db,            \* PersistentHashTable::db
    dropping,      \* PersistentHashTable::dropping
    cancelThread,  \* PersistentHashTable::cancelThread
    dbMutex,       \* PersistentHashTable::dbMutex: "free", "main" or "dropper"
    logsFile,      \* logs.txt on disk
    logsStream,    \* dropLogs' ofstream: what it holds unflushed
    dbFile,        \* db.txt on disk
    dbStream,      \* dropTable's ofstream: what it holds unflushed
    valFile,       \* values.bin on disk
    valBuf,        \* the bytes fwrite left in f's buffer
    fpos,          \* what ftell(f) returns
    rpc,           \* where the main thread is
    dpc,           \* where dropThread is
    request,       \* the request served last in the running input drain
    response,      \* the response built for it
    restarts,      \* how many times the process was started again
    history,       \* every (key, offset) passed to PersistentHashTable::put
    written,       \* per key, the offset of its last put, or as recovered
    late,          \* the keys put while dropping was set, until the event
                   \* loop has passed a dropLogs that merged them
    atEntry,       \* inside dropLogs: the log file as dropLogs found it
    states,        \* main's states: descriptor -> the responses queued on it
    conns,         \* the accepted descriptors that are open and in the epoll set
    leaked,        \* the accepted descriptors that are open and in no epoll set
    backlog,       \* connections waiting in the queue of the listening socket
    events,        \* what is left of the array epoll_wait filled
    ev,            \* events[i], the event being served
    closed,        \* main's local closed
    rid,           \* the request_id of the request served last (0: none)
    failed,        \* parity of the failures accept_connection has logged
    ctor,          \* inside the constructor: the ifstream being read
    flushes,       \* calls of dropLogs since the event being served began
    handledBefore, \* how many puts had been handled when the event was taken
    snapDb,        \* db as it was when dropping was set
    begun          \* calls of dropTable begun since cancelThread was set

vars ==
    << pendingLog, db, dropping, cancelThread, dbMutex, logsFile, logsStream,
       dbFile, dbStream, valFile, valBuf, fpos, rpc, dpc, request, response,
       restarts, history, written, late, atEntry, states, conns, leaked,
       backlog, events, ev, closed, rid, failed, ctor, flushes, handledBefore,
       snapDb, begun >>

\* The variables of the index, of the files and of the rest, for UNCHANGED.
indexVars == << pendingLog, db, dropping >>
logVars == << logsFile, logsStream >>
snapVars == << dbFile, dbStream >>
valueVars == << valFile, valBuf, fpos >>
ghostVars == << history, written, late >>
connVars == << states, conns, leaked, backlog, events, ev, closed, rid,
              failed >>
auxVars == << ctor, flushes, handledBefore, snapDb, begun >>

NoEntry == <<>>

\* The empty connection table.
NoStates == [fd \in {} |-> <<>>]

\* The listening socket, socketfd (no accepted descriptor is 0).
socketfd == 0

\* No event is being served.
NoEvent == [fd |-> -1, events |-> {}]

\* No ifstream is open.
NoCtor == [file |-> "none", buf |-> <<>>, pos |-> 1, fail |-> FALSE, cnt |-> 0, got |-> <<>>]

\* The process is running (not crashed, not exited).
Up == rpc \notin {"crashed", "exited"}

\* What get returns for every key of the requests.
Lookup(log, m) == [k \in Keys |-> get(log, m, k)]

\* The state the constructors leave: PersistentHashTable's, lines 64-107
\* (dropThread started, then the files loaded), and
\* BinaryPersistentHashTable's, lines 189-194.  fopen(.., "ab+") leaves the
\* initial position to the C library: the start of the file (glibc) or its
\* end (BSD); pos is that choice.  dropper sleeps SLEEP_TIME_MS before its
\* first dropTable: here the files are loaded before it wakes.
Started(pos) ==
    /\ db' = recover(dbFile, logsFile)
    /\ pendingLog' = <<>>
    /\ dropping' = FALSE
    /\ cancelThread' = FALSE
    /\ dbMutex' = "free"
    /\ logsStream' = <<>>
    /\ dbStream' = <<>>
    /\ valBuf' = <<>>
    /\ fpos' = pos
    /\ rpc' = "idle"
    /\ dpc' = "check1"
    /\ request' = NoRequest
    /\ response' = NoResponse
    /\ written' = Lookup(<<>>, recover(dbFile, logsFile))
    /\ late' = {}
    /\ atEntry' = NoEntry
    /\ UNCHANGED << logsFile, dbFile, valFile, history >>
    /\ ctor' = NoCtor
    /\ flushes' = 0
    /\ snapDb' = EmptyDb
    /\ begun' = 0
    /\ handledBefore' = 0
    /\ UNCHANGED connVars

\* A first start: no file exists.
Init ==
    /\ pendingLog = <<>>
    /\ db = EmptyDb
    /\ dropping = FALSE
    /\ cancelThread = FALSE
    /\ dbMutex = "free"
    /\ logsFile = <<>>
    /\ logsStream = <<>>
    /\ dbFile = <<>>
    /\ dbStream = <<>>
    /\ valFile = <<>>
    /\ valBuf = <<>>
    /\ fpos = 0
    /\ rpc = "idle"
    /\ dpc = "check1"
    /\ request = NoRequest
    /\ response = NoResponse
    /\ restarts = 0
    /\ history = <<>>
    /\ written = [k \in Keys |-> NULL]
    /\ late = {}
    /\ atEntry = NoEntry
    /\ states = NoStates
    /\ conns = {}
    /\ leaked = {}
    /\ backlog = 0
    /\ events = <<>>
    /\ ev = NoEvent
    /\ closed = FALSE
    /\ rid = 0
    /\ failed = 0
    /\ ctor = NoCtor
    /\ flushes = 0
    /\ handledBefore = 0
    /\ snapDb = EmptyDb
    /\ begun = 0

\* ------------------------------------------------- main thread: the event loop

\* epoll_wait returns an event with EPOLLIN for a connection (line 503):
\* process_input runs the handler on every request it has read.
EpollIn ==
    /\ rpc = "idle"
    /\ rpc' = "input"
    /\ UNCHANGED << indexVars, cancelThread, dbMutex, logVars, snapVars,
                    valueVars, dpc, request, response, restarts, ghostVars,
                    atEntry >>
    /\ UNCHANGED << connVars, auxVars >>

\* epoll_wait returns an event with EPOLLOUT only: line 511 comes next.
EpollOut ==
    /\ rpc = "idle"
    /\ rpc' = "dropLogs"
    /\ UNCHANGED << indexVars, cancelThread, dbMutex, logVars, snapVars,
                    valueVars, dpc, request, response, restarts, ghostVars,
                    atEntry >>
    /\ UNCHANGED << connVars, auxVars >>

\* handle_put, lines 419-439, with BinaryPersistentHashTable::put, lines
\* 210-216, and PersistentHashTable::put, lines 109-115.  The offset is
\* ftell(f); the stream is in append mode, so the record goes to the end of
\* the file whatever the position, which is the end afterwards.
handle_put(key, value) ==
    /\ rpc = "input"
    /\ dbMutex = "free"
    /\ Len(history) < MaxPuts
    /\ LET offset == fpos
       IN  /\ valBuf' = valBuf \o valueRecord(value)
           /\ fpos' = Len(valFile) + Len(valBuf) + Len(valueRecord(value))
           /\ pendingLog' = putLog(pendingLog, key, offset)
           /\ db' = putDb(db, dropping, key, offset)
           /\ history' = Append(history, Pair(key, offset))
           /\ written' = [written EXCEPT ![key] = offset]
    /\ late' = IF dropping THEN late \cup {key} ELSE late
    /\ request' = [op |-> "put", key |-> key, value |-> value]
    /\ response' = putResponse
    /\ UNCHANGED << dropping, cancelThread, dbMutex, logVars, snapVars, valFile,
                    rpc, dpc, restarts, atEntry >>
    /\ UNCHANGED auxVars

HandlePut ==
    /\ \E key \in Keys, value \in Payloads : handle_put(key, value)
    /\ UNCHANGED connVars

\* handle_get, lines 395-417, with BinaryPersistentHashTable::get, lines
\* 196-208, and PersistentHashTable::get, lines 117-132.  A missing key
\* returns "" without touching the file.  Otherwise fseek writes f's buffer
\* out, the record at the offset is read and the position goes to the end.
handle_get(key, ret) ==
    /\ rpc = "input"
    /\ dbMutex = "free"
    /\ LET offset == get(pendingLog, db, key)
       IN  IF offset = NULL
           THEN /\ ret = <<>>
                /\ UNCHANGED valueVars
           ELSE LET data == valFile \o valBuf
                    r == readValue(data, offset)
                IN  /\ ret \in (IF r.ok THEN {r.val} ELSE Garbage)
                    /\ valFile' = data
                    /\ valBuf' = <<>>
                    /\ fpos' = Len(data)
    /\ request' = [op |-> "get", key |-> key, value |-> ret]
    /\ response' = getResponse(ret)
    /\ UNCHANGED << indexVars, cancelThread, dbMutex, logVars, snapVars, rpc,
                    dpc, restarts, ghostVars, atEntry >>
    /\ UNCHANGED auxVars

HandleGet ==
    /\ \E key \in Keys : \E ret \in Garbage \cup { readValue(valFile \o valBuf, get(pendingLog, db, key)).val } :
        handle_get(key, ret)
    /\ UNCHANGED connVars

\* process_input returns (lines 505-509); line 511 comes next.
InputDone ==
    /\ rpc = "input"
    /\ rpc' = "dropLogs"
    /\ request' = NoRequest
    /\ response' = NoResponse
    /\ UNCHANGED << indexVars, cancelThread, dbMutex, logVars, snapVars,
                    valueVars, dpc, restarts, ghostVars, atEntry >>
    /\ UNCHANGED << connVars, auxVars >>

\* dropLogs clearing pendingLog without the loop of lines 160-162.
dropLogsDbNoMerge(m, isDropping, log) == m

\* dropLogs merging whether or not a snapshot is running.
dropLogsDbAlways(m, isDropping, log) == mergeLog(m, log)

\* dropLogs, what it does to the map and to the log once the entries are
\* written (lines 159-164).
dropLogsDb(m, isDropping, log) == IF ~isDropping THEN mergeLog(m, log) ELSE m

\* dropLogs without the clear of line 163.
dropLogsLogKeep(isDropping, log) == log

\* dropLogs, line 163: the log is cleared unless a snapshot is running.
dropLogsLog(isDropping, log) == IF ~isDropping THEN <<>> ELSE log

\* dropLogs, lines 153-158: the lock is taken, the log file is opened with
\* trunc, which empties it, and the count and the entries go to the stream.
DropLogsOpen ==
    /\ rpc = "dropLogs"
    /\ dbMutex = "free"
    /\ dbMutex' = "main"
    /\ logsFile' = <<>>
    /\ logsStream' = serializeLog(pendingLog)
    /\ atEntry' = logsFile
    /\ rpc' = "dl_merge"
    /\ UNCHANGED << indexVars, cancelThread, snapVars, valueVars, dpc, request,
                    response, restarts, ghostVars >>
    /\ flushes' = flushes + 1
    /\ UNCHANGED << connVars, ctor, handledBefore, snapDb, begun >>

\* dropLogs, lines 159-164: merge and clear unless a snapshot is running.
DropLogsMerge ==
    /\ rpc = "dl_merge"
    /\ db' = dropLogsDb(db, dropping, pendingLog)
    /\ pendingLog' = dropLogsLog(dropping, pendingLog)
    /\ rpc' = "dl_close"
    /\ UNCHANGED << dropping, cancelThread, dbMutex, logVars, snapVars,
                    valueVars, dpc, request, response, restarts, ghostVars,
                    atEntry >>
    /\ UNCHANGED << connVars, auxVars >>

\* dropLogs, lines 165-167: flush and close write the stream to the file;
\* the lock is released.  In the event loop line 513 comes next, in the
\* destructor (line 172) the process ends.
DropLogsClose ==
    /\ rpc = "dl_close"
    /\ logsFile' = logsStream
    /\ logsStream' = <<>>
    /\ dbMutex' = "free"
    /\ rpc' = IF cancelThread THEN "return" ELSE "output"
    /\ atEntry' = NoEntry
    /\ UNCHANGED << indexVars, cancelThread, snapVars, valueVars, dpc, request,
                    response, restarts, ghostVars >>
    /\ UNCHANGED << connVars, ctor, flushes, handledBefore, snapDb, begun >>

\* Lines 513-518: process_output, then the next event.
ProcessOutput ==
    /\ rpc = "output"
    /\ rpc' = "idle"
    /\ late' = IF pendingLog = <<>> THEN {} ELSE late
    /\ UNCHANGED << indexVars, cancelThread, dbMutex, logVars, snapVars,
                    valueVars, dpc, request, response, restarts, history,
                    written, atEntry >>
    /\ flushes' = 0
    /\ UNCHANGED << connVars, ctor, handledBefore, snapDb, begun >>

\* ----------------------------------------------------- dropThread: dropper

\* Line 75: the check before the sleep.
DropperCheck ==
    /\ dpc = "check1"
    /\ dpc' = IF cancelThread THEN "exited" ELSE "sleep"
    /\ UNCHANGED << indexVars, cancelThread, dbMutex, logVars, snapVars,
                    valueVars, rpc, request, response, restarts, ghostVars,
                    atEntry >>
    /\ UNCHANGED << connVars, auxVars >>

\* Lines 78-82: the sleep ends, the check after it.
DropperWake ==
    /\ dpc = "sleep"
    /\ dpc' = IF cancelThread THEN "exited" ELSE "dropTable"
    /\ UNCHANGED << indexVars, cancelThread, dbMutex, logVars, snapVars,
                    valueVars, rpc, request, response, restarts, ghostVars,
                    atEntry >>
    /\ UNCHANGED << connVars, auxVars >>

\* dropTable, lines 135-138: the flag is set under the lock.
DropTableBegin ==
    /\ dpc = "dropTable"
    /\ dbMutex = "free"
    /\ dropping' = TRUE
    /\ dpc' = "dt_write"
    /\ UNCHANGED << pendingLog, db, cancelThread, dbMutex, logVars, snapVars,
                    valueVars, rpc, request, response, restarts, ghostVars,
                    atEntry >>
    /\ snapDb' = db
    /\ begun' = IF cancelThread THEN begun + 1 ELSE begun
    /\ UNCHANGED << connVars, ctor, flushes, handledBefore >>

\* dropTable, lines 139-143: the snapshot file is opened with trunc, which
\* empties it; the size and the entries of db, read without the lock, go to
\* the stream.
DropTableWrite ==
    /\ dpc = "dt_write"
    /\ dbFile' = <<>>
    /\ \E order \in Orders(db) : dbStream' = serializeDb(db, order)
    /\ dpc' = "dt_close"
    /\ UNCHANGED << indexVars, cancelThread, dbMutex, logVars, valueVars, rpc,
                    request, response, restarts, ghostVars, atEntry >>
    /\ UNCHANGED << connVars, auxVars >>

\* dropTable, lines 144-145: flush and close write the stream to the file.
DropTableClose ==
    /\ dpc = "dt_close"
    /\ dbFile' = dbStream
    /\ dbStream' = <<>>
    /\ dpc' = "dt_clear"
    /\ UNCHANGED << indexVars, cancelThread, dbMutex, logVars, valueVars, rpc,
                    request, response, restarts, ghostVars, atEntry >>
    /\ UNCHANGED << connVars, auxVars >>

\* dropTable, lines 146-149: the flag is cleared under the lock; the loop of
\* dropper goes on.
DropTableEnd ==
    /\ dpc = "dt_clear"
    /\ dbMutex = "free"
    /\ dropping' = FALSE
    /\ dpc' = "check1"
    /\ UNCHANGED << pendingLog, db, cancelThread, dbMutex, logVars, snapVars,
                    valueVars, rpc, request, response, restarts, ghostVars,
                    atEntry >>
    /\ snapDb' = EmptyDb
    /\ UNCHANGED << connVars, ctor, flushes, handledBefore, begun >>

\* ----------------------------------------------------- stopping and starting

\* ~PersistentHashTable, line 170, when main leaves the event loop.
Destructor ==
    /\ rpc = "idle"
    /\ cancelThread' = TRUE
    /\ rpc' = "join"
    /\ UNCHANGED << indexVars, dbMutex, logVars, snapVars, valueVars, dpc,
                    request, response, restarts, ghostVars, atEntry >>
    /\ UNCHANGED << connVars, auxVars >>

\* ~PersistentHashTable, lines 171-172: join returns when dropper has
\* returned; dropLogs comes next.
Join ==
    /\ rpc = "join"
    /\ dpc = "exited"
    /\ rpc' = "dropLogs"
    /\ UNCHANGED << indexVars, cancelThread, dbMutex, logVars, snapVars,
                    valueVars, dpc, request, response, restarts, ghostVars,
                    atEntry >>
    /\ UNCHANGED << connVars, auxVars >>

\* What is left of a process that ended: its files.
Ended ==
    /\ pendingLog' = <<>>
    /\ db' = EmptyDb
    /\ dropping' = FALSE
    /\ cancelThread' = FALSE
    /\ dbMutex' = "free"
    /\ logsStream' = <<>>
    /\ dbStream' = <<>>
    /\ valBuf' = <<>>
    /\ fpos' = 0
    /\ dpc' = "exited"
    /\ response' = NoResponse
    /\ late' = {}
    /\ atEntry' = NoEntry
    /\ UNCHANGED << logsFile, dbFile, restarts, history, written >>
    /\ ctor' = NoCtor
    /\ flushes' = 0
    /\ snapDb' = EmptyDb
    /\ begun' = 0
    /\ handledBefore' = 0

Gone ==
    /\ Ended
    /\ request' = NoRequest

\* main returns (lines 522-526): exit writes out the buffer of f.
Exit ==
    /\ rpc = "return"
    /\ rpc' = "exited"
    /\ valFile' = valFile \o valBuf
    /\ Gone
    /\ UNCHANGED connVars

\* The process is killed, or a handler calls abort() (lines 400, 424, 449):
\* what the streams and f hold unflushed is lost.
Crash ==
    /\ Up
    /\ rpc' = "crashed"
    /\ UNCHANGED valFile
    /\ Gone
    /\ UNCHANGED connVars

\* The server is started again on the files the last process left.
Restart ==
    /\ ~Up
    /\ restarts < MaxRestarts
    /\ restarts' = restarts + 1
    /\ \E pos \in {0, Len(valFile)} : Started(pos)

\* ------------------------------------------- the constructor, step by step

\* The main thread is inside PersistentHashTable's constructor.
InConstructor == rpc \in {"ctor_db", "load_db", "ctor_logs", "load_logs"}

\* Lines 64-89 on the files the last process left: dropThread is started
\* and the two streams are opened; nothing is read yet.  (The position of
\* values.bin, which line 393 opens, is pos.)
Constructor ==
    /\ ~Up
    /\ restarts < MaxRestarts
    /\ restarts' = restarts + 1
    /\ db' = EmptyDb
    /\ pendingLog' = <<>>
    /\ dropping' = FALSE
    /\ cancelThread' = FALSE
    /\ dbMutex' = "free"
    /\ logsStream' = <<>>
    /\ dbStream' = <<>>
    /\ valBuf' = <<>>
    /\ \E pos \in {0, Len(valFile)} : fpos' = pos
    /\ rpc' = "ctor_db"
    /\ dpc' = "check1"
    /\ request' = NoRequest
    /\ response' = NoResponse
    /\ written' = Lookup(<<>>, recover(dbFile, logsFile))
    /\ late' = {}
    /\ atEntry' = NoEntry
    /\ ctor' = NoCtor
    /\ flushes' = 0
    /\ snapDb' = EmptyDb
    /\ begun' = 0
    /\ handledBefore' = 0
    /\ UNCHANGED << logsFile, dbFile, valFile, history, connVars >>

\* stream >> cnt (lines 91-92, 100-101) on the stream of the file named
\* name: the first read takes the characters the file holds now.
readCount(name, file) ==
    LET c == ReadNumber(OpenIn(file), Indeterminate)
    IN  [file |-> name, buf |-> c.st.buf, pos |-> c.st.pos, fail |-> c.st.fail,
         cnt |-> c.val, got |-> <<>>]

\* One turn of the loops of lines 93-96 and 102-105: a pair is read and
\* assigned to db, without the mutex.
readEntry ==
    LET p == readFromFile([buf |-> ctor.buf, pos |-> ctor.pos, fail |-> ctor.fail])
    IN  /\ db' = Assign(db, p.key, p.value)
        /\ ctor' = [ctor EXCEPT !.pos = p.st.pos, !.fail = p.st.fail,
                                !.cnt = ctor.cnt - 1,
                                !.got = Append(ctor.got, Pair(p.key, p.value))]

ctorFrame ==
    UNCHANGED << pendingLog, dropping, cancelThread, dbMutex, logVars, snapVars,
                 valueVars, dpc, request, response, restarts, ghostVars,
                 atEntry, connVars, flushes, handledBefore, snapDb, begun >>

\* Lines 90-92.
LoadDbCount ==
    /\ rpc = "ctor_db"
    /\ ctor' = readCount("db", dbFile)
    /\ rpc' = "load_db"
    /\ UNCHANGED db
    /\ ctorFrame

\* Lines 93-96.
LoadDbEntry ==
    /\ rpc = "load_db"
    /\ ctor.cnt > 0
    /\ readEntry
    /\ UNCHANGED rpc
    /\ ctorFrame

\* Line 93, the loop ends.
LoadDbDone ==
    /\ rpc = "load_db"
    /\ ctor.cnt <= 0
    /\ rpc' = "ctor_logs"
    /\ UNCHANGED << db, ctor >>
    /\ ctorFrame

\* Lines 99-101.
LoadLogsCount ==
    /\ rpc = "ctor_logs"
    /\ ctor' = readCount("logs", logsFile)
    /\ rpc' = "load_logs"
    /\ UNCHANGED db
    /\ ctorFrame

\* Lines 102-105.
LoadLogsEntry ==
    /\ rpc = "load_logs"
    /\ ctor.cnt > 0
    /\ readEntry
    /\ UNCHANGED rpc
    /\ ctorFrame

\* Lines 102-107: the loop ends and the constructor returns; the event loop
\* comes next.
LoadLogsDone ==
    /\ rpc = "load_logs"
    /\ ctor.cnt <= 0
    /\ rpc' = "idle"
    /\ ctor' = NoCtor
    /\ UNCHANGED db
    /\ ctorFrame

\* --------------------------------------- main thread: sockets and events

\* Every variable of the index, of the value file and of dropThread.
storageVars ==
    << indexVars, cancelThread, dbMutex, logVars, snapVars, valueVars, dpc,
       request, response, restarts, ghostVars, atEntry, ctor, handledBefore,
       snapDb, begun >>

\* The fd of the state invalid_state() returns: that of a SocketState nothing
\* was assigned to.
InvalidFd == -1

\* states.erase(fd).
erase(m, fd) == [f \in DOMAIN m \ {fd} |-> m[f]]

\* states[fd] = state.
insert(m, fd, state) == (fd :> state) @@ m

\* A new SocketState: nothing is queued.
NewState == <<>>

\* What process_input does with the response the handler returned: it is
\* queued on the connection, behind the responses not yet written.
queued(q, r) == Append(q, r)

\* What process_output leaves queued after it has written sent responses.
drained(q, sent) == SubSeq(q, sent + 1, Len(q))

\* Lines 405-414 and 431-436: the response carries the type its header is
\* serialized with and the request_id taken from the request.
reply(resp, id) == [type |-> resp.type, id |-> id]

\* The event sets epoll reports for a connection registered with
\* EPOLLIN | EPOLLOUT | EPOLLET; "ERR" is EPOLLERR or EPOLLHUP.
EventSets == { {"IN"}, {"OUT"}, {"IN", "OUT"}, {"ERR"} }

\* Lines 478-480.
isError(e) == "ERR" \in e.events \/ e.events \cap {"IN", "OUT"} = {}

\* dropLogs called only after process_input: an event without EPOLLIN goes
\* on to line 513.
branchNoFlush(e) ==
    IF isError(e) THEN "finalize"
    ELSE IF e.fd = socketfd THEN "accept"
    ELSE IF "IN" \in e.events THEN "input"
    ELSE "output"

\* Where the body of the for loop goes with the event e, lines 478-511.
branch(e) ==
    IF isError(e) THEN "finalize"
    ELSE IF e.fd = socketfd THEN "accept"
    ELSE IF "IN" \in e.events THEN "input"
    ELSE "dropLogs"

\* closed left false when process_input fails.
closedNever(ok) == FALSE

\* Lines 505-508: closed after process_input returned ok.
closedAfterInput(ok) == ~ok

\* Line 513.
drainsOutput(e, isClosed) == "OUT" \in e.events /\ ~isClosed

\* The for loop goes on to events[i + 1], or main to epoll_wait.
afterEvent(rest) == IF rest = <<>> THEN "idle" ELSE "loop"

\* A client connects: the connection waits in the queue of the listening
\* socket.
Connect ==
    /\ Up
    /\ ~InConstructor
    /\ backlog < MaxBacklog
    /\ backlog' = backlog + 1
    /\ UNCHANGED << storageVars, rpc, flushes, states, conns, leaked, events,
                    ev, closed, rid, failed >>

\* The arrays of at most n events epoll_wait can fill: one event per ready
\* descriptor of the epoll set, the listening socket when connections wait.
Batches(n) ==
    LET ready == conns \cup (IF backlog > 0 THEN {socketfd} ELSE {})
        evs == { [fd |-> fd, events |-> es] : fd \in conns, es \in EventSets }
                   \cup { [fd |-> socketfd, events |-> {"IN"}] : fd \in ready \cap {socketfd} }
        most == IF n < Cardinality(ready) THEN n ELSE Cardinality(ready)
    IN  UNION { { b \in [1..k -> evs] : \A i, j \in 1..k : i # j => b[i].fd # b[j].fd }
                : k \in 1..most }

\* Line 469: epoll_wait returns with at most n events.
epoll_wait(n) ==
    /\ rpc = "idle"
    /\ \E b \in Batches(n) : events' = b
    /\ rpc' = "loop"
    /\ UNCHANGED << storageVars, flushes, states, conns, leaked, backlog, ev,
                    closed, rid, failed >>

\* finalize, lines 461-466.
finalize(fd) ==
    /\ conns' = conns \ {fd}
    /\ states' = erase(states, fd)

\* Lines 475-504: the next event of the array is taken.  On an error or a
\* hangup the descriptor is finalized; for the listening socket the accept
\* loop comes next; with EPOLLIN states.at(fd) and process_input; otherwise
\* line 511.
ServeEvent ==
    /\ rpc = "loop"
    /\ events # <<>>
    /\ LET e == Head(events)
       IN  /\ ev' = e
           /\ events' = Tail(events)
           /\ closed' = FALSE
           /\ flushes' = 0
           /\ handledBefore' = Len(history)
           /\ IF branch(e) = "finalize"
              THEN /\ finalize(e.fd)
                   /\ rpc' = afterEvent(Tail(events))
              ELSE /\ rpc' = IF branch(e) = "input" /\ e.fd \notin DOMAIN states
                             THEN "crashed" ELSE branch(e)
                   /\ UNCHANGED << states, conns >>
    /\ UNCHANGED << indexVars, cancelThread, dbMutex, logVars, snapVars,
                    valueVars, dpc, request, response, restarts, ghostVars,
                    atEntry, ctor, snapDb, begun, leaked, backlog, rid,
                    failed >>

\* accept_connection, lines 294-339, called at line 491, and lines 492-496.
\* accept takes the first waiting connection and returns the lowest free
\* descriptor; with none free it fails (EMFILE) and the connection keeps
\* waiting; it can fail otherwise (ECONNABORTED), the connection gone.  A
\* failure of accept, of make_socket_nonblocking or of epoll_ctl returns
\* invalid_state(), which is not null and which line 496 stores, and is
\* logged with LOG_ERROR; EAGAIN returns nullptr, which ends the loop.
accept_connection(outcome) ==
    LET free == Fds \ (conns \cup leaked)
        infd == CHOOSE fd \in free : \A g \in free : fd <= g
    IN  /\ rpc = "accept"
        /\ IF backlog = 0
           THEN /\ outcome = "EAGAIN"
                /\ rpc' = afterEvent(events)
                /\ UNCHANGED << states, conns, leaked, backlog, failed >>
           ELSE IF free = {}
           THEN /\ outcome = "EMFILE"
                /\ failed' = 1 - failed
                /\ states' = insert(states, InvalidFd, NewState)
                /\ UNCHANGED << rpc, conns, leaked, backlog >>
           ELSE /\ backlog' = backlog - 1
                /\ UNCHANGED rpc
                /\ CASE outcome = "accepted" ->
                          /\ conns' = conns \cup {infd}
                          /\ states' = insert(states, infd, NewState)
                          /\ UNCHANGED << leaked, failed >>
                     [] outcome = "ECONNABORTED" ->
                          /\ failed' = 1 - failed
                          /\ states' = insert(states, InvalidFd, NewState)
                          /\ UNCHANGED << conns, leaked >>
                     [] outcome = "not registered" ->
                          /\ leaked' = leaked \cup {infd}
                          /\ failed' = 1 - failed
                          /\ states' = insert(states, InvalidFd, NewState)
                          /\ UNCHANGED conns
                     [] OTHER -> FALSE
        /\ UNCHANGED << storageVars, flushes, events, ev, closed, rid >>

Accept ==
    \E outcome \in {"EAGAIN", "EMFILE", "accepted", "ECONNABORTED", "not registered"} :
        accept_connection(outcome)

\* process_input returns ok, lines 505-509; line 511 comes next.
process_input(ok) ==
    /\ rpc = "input"
    /\ closed' = closedAfterInput(ok)
    /\ IF ok THEN UNCHANGED << states, conns >> ELSE finalize(ev.fd)
    /\ rpc' = "dropLogs"
    /\ request' = NoRequest
    /\ response' = NoResponse
    /\ rid' = 0
    /\ UNCHANGED << indexVars, cancelThread, dbMutex, logVars, snapVars,
                    valueVars, dpc, restarts, ghostVars, atEntry, auxVars,
                    leaked, backlog, events, ev, failed >>

ProcessInput == \E ok \in BOOLEAN : process_input(ok)

\* Lines 513-518: with EPOLLOUT and closed false, states.at(fd) and
\* process_output, which writes the first sent of the queued responses to
\* the socket and returns ok; then the next event.
process_output(sent, ok) ==
    /\ rpc = "output"
    /\ IF drainsOutput(ev, closed)
       THEN IF ev.fd \notin DOMAIN states
            THEN /\ rpc' = "crashed"
                 /\ UNCHANGED << states, conns >>
            ELSE /\ sent <= Len(states[ev.fd])
                 /\ rpc' = afterEvent(events)
                 /\ IF ok
                    THEN /\ states' = [states EXCEPT ![ev.fd] = drained(@, sent)]
                         /\ UNCHANGED conns
                    ELSE finalize(ev.fd)
       ELSE /\ sent = 0 /\ ok
            /\ rpc' = afterEvent(events)
            /\ UNCHANGED << states, conns >>
    /\ late' = IF pendingLog = <<>> THEN {} ELSE late
    /\ UNCHANGED << indexVars, cancelThread, dbMutex, logVars, snapVars,
                    valueVars, dpc, request, response, restarts, history,
                    written, atEntry, auxVars, leaked, backlog, events, ev,
                    closed, rid, failed >>

Output == \E sent \in 0..MaxQueue, ok \in BOOLEAN : process_output(sent, ok)

\* How many responses the connection table m holds.
Queued(m) ==
    Cardinality(UNION { { << fd, i >> : i \in 1..Len(m[fd]) } : fd \in DOMAIN m })

\* handler, lines 441-445, from process_input: a put request with request_id
\* id is handled and the response is queued on the connection of the event.
ServePut ==
    /\ ev.fd \in DOMAIN states
    /\ Queued(states) < MaxQueue
    /\ \E id \in Ids, key \in ReqKeys, value \in ReqPayloads :
        /\ handle_put(key, value)
        /\ rid' = id
        /\ states' = [states EXCEPT ![ev.fd] = queued(@, reply(response', id))]
    /\ UNCHANGED << conns, leaked, backlog, events, ev, closed, failed >>

\* The same for a get request.
ServeGet ==
    /\ ev.fd \in DOMAIN states
    /\ Queued(states) < MaxQueue
    /\ \E id \in Ids, key \in ReqKeys :
        \E ret \in Garbage \cup { readValue(valFile \o valBuf, get(pendingLog, db, key)).val } :
            /\ handle_get(key, ret)
            /\ rid' = id
            /\ states' = [states EXCEPT ![ev.fd] = queued(@, reply(response', id))]
    /\ UNCHANGED << conns, leaked, backlog, events, ev, closed, failed >>

\* A request whose payload ParseFromArray rejects (lines 397-400, 421-424)
\* or whose type is neither PUT_REQUEST nor GET_REQUEST (line 449): abort().
\* The process ends and the kernel closes every descriptor; states, events
\* and ev stay as the process left them.
ServeBad ==
    /\ rpc = "input"
    /\ rpc' = "crashed"
    /\ UNCHANGED valFile
    /\ Ended
    /\ request' = BadRequest
    /\ conns' = {}
    /\ leaked' = {}
    /\ UNCHANGED << states, backlog, events, ev, closed, rid, failed >>

EpollWaitOne == epoll_wait(1)

\* The server once it has accepted a connection on every descriptor of Fds.
InitReactor ==
    /\ pendingLog = <<>>
    /\ db = EmptyDb
    /\ dropping = FALSE
    /\ cancelThread = FALSE
    /\ dbMutex = "free"
    /\ logsFile = <<>>
    /\ logsStream = <<>>
    /\ dbFile = <<>>
    /\ dbStream = <<>>
    /\ valFile = <<>>
    /\ valBuf = <<>>
    /\ fpos = 0
    /\ rpc = "idle"
    /\ dpc = "check1"
    /\ request = NoRequest
    /\ response = NoResponse
    /\ restarts = 0
    /\ history = <<>>
    /\ written = [k \in Keys |-> NULL]
    /\ late = {}
    /\ atEntry = NoEntry
    /\ states = [fd \in Fds |-> NewState]
    /\ conns = Fds
    /\ leaked = {}
    /\ backlog = 0
    /\ events = <<>>
    /\ ev = NoEvent
    /\ closed = FALSE
    /\ rid = 0
    /\ failed = 0
    /\ ctor = NoCtor
    /\ flushes = 0
    /\ handledBefore = 0
    /\ snapDb = EmptyDb
    /\ begun = 0

\* The server with those connections: the clients send put and get requests
\* and requests that do not decode, and hang up; epoll_wait returns one event
\* at a time, no client connects and dropThread sleeps.
NextReactor ==
    \/ EpollWaitOne
    \/ ServeEvent
    \/ ServePut
    \/ ServeGet
    \/ ServeBad
    \/ ProcessInput
    \/ DropLogsOpen
    \/ DropLogsMerge
    \/ DropLogsClose
    \/ Output

SpecReactor == InitReactor /\ [][NextReactor]_vars

\* Line 35: the size of the array epoll_wait fills.
max_events == 32

EpollWait == epoll_wait(max_events)

\* The steps main takes without waiting for a client: the body of the for
\* loop.
LoopBody ==
    \/ ServeEvent
    \/ Accept
    \/ ProcessInput
    \/ DropLogsOpen
    \/ DropLogsMerge
    \/ DropLogsClose
    \/ Output

\* The reactor and its connections: clients connect, send bytes that hold no
\* complete request, read their socket and hang up; dropThread sleeps.  main
\* goes on running whenever it can.
NextConn ==
    \/ Connect
    \/ EpollWait
    \/ LoopBody

SpecConn == Init /\ [][NextConn]_vars /\ WF_vars(LoopBody)

Next ==
    \/ EpollIn
    \/ EpollOut
    \/ HandlePut
    \/ HandleGet
    \/ InputDone
    \/ DropLogsOpen
    \/ DropLogsMerge
    \/ DropLogsClose
    \/ ProcessOutput
    \/ DropperCheck
    \/ DropperWake
    \/ DropTableBegin
    \/ DropTableWrite
    \/ DropTableClose
    \/ DropTableEnd
    \/ Destructor
    \/ Join
    \/ Exit
    \/ Crash
    \/ Restart

Spec == Init /\ [][Next]_vars

\* The server when no get request arrives: every action but HandleGet.
NextIndex ==
    \/ EpollIn
    \/ EpollOut
    \/ HandlePut
    \/ InputDone
    \/ DropLogsOpen
    \/ DropLogsMerge
    \/ DropLogsClose
    \/ ProcessOutput
    \/ DropperCheck
    \/ DropperWake
    \/ DropTableBegin
    \/ DropTableWrite
    \/ DropTableClose
    \/ DropTableEnd
    \/ Destructor
    \/ Join
    \/ Exit
    \/ Crash
    \/ Restart

SpecIndex == Init /\ [][NextIndex]_vars

\* dropThread's steps.
Dropper ==
    \/ DropperCheck
    \/ DropperWake
    \/ DropTableBegin
    \/ DropTableWrite
    \/ DropTableClose
    \/ DropTableEnd

\* The server served, with put requests only, until it shuts down, and never
\* killed.  dropThread is scheduled, its sleep ends and it gets the mutex
\* when the mutex is free for good; join returns once dropper has returned.
NextShutdown ==
    \/ EpollIn
    \/ EpollOut
    \/ HandlePut
    \/ InputDone
    \/ DropLogsOpen
    \/ DropLogsMerge
    \/ DropLogsClose
    \/ ProcessOutput
    \/ DropperCheck
    \/ DropperWake
    \/ DropTableBegin
    \/ DropTableWrite
    \/ DropTableClose
    \/ DropTableEnd
    \/ Destructor
    \/ Join
    \/ Exit

SpecShutdown ==
    Init /\ [][NextShutdown]_vars /\ WF_vars(Dropper) /\ WF_vars(Join)

\* The server with its constructor taken step by step, dropThread running
\* beside it from line 86 on: nothing but the sleep of line 78 keeps dropper
\* from dropTable before the files are loaded.
NextStartup ==
    \/ EpollIn
    \/ EpollOut
    \/ HandlePut
    \/ InputDone
    \/ DropLogsOpen
    \/ DropLogsMerge
    \/ DropLogsClose
    \/ ProcessOutput
    \/ DropperCheck
    \/ DropperWake
    \/ DropTableBegin
    \/ DropTableWrite
    \/ DropTableClose
    \/ DropTableEnd
    \/ Crash
    \/ Constructor
    \/ LoadDbCount
    \/ LoadDbEntry
    \/ LoadDbDone
    \/ LoadLogsCount
    \/ LoadLogsEntry
    \/ LoadLogsDone

SpecStartup == Init /\ [][NextStartup]_vars

\* The sequences of at most MaxPairs keys.
KeySeqs == UNION { [1..n -> AnyKeys] : n \in 0..MaxPairs }

\* The pairs the puts of the keys ks with empty payloads pass to the index:
\* the offsets are those of records of SizeofU64 bytes.
pairsOf(ks) == [i \in 1..Len(ks) |-> Pair(ks[i], SizeofU64 * (i - 1))]

\* The files of a process that was stopped after it had put the keys ks in
\* one input drain: its dropLogs wrote the pairs to logs.txt and, when the
\* keys are distinct, a dropTable wrote them to db.txt (visiting db in the
\* order ks).
InitPairs ==
    \E ks \in KeySeqs :
        /\ pendingLog = <<>>
        /\ db = EmptyDb
        /\ dropping = FALSE
        /\ cancelThread = FALSE
        /\ dbMutex = "free"
        /\ logsFile = serializeLog(pairsOf(ks))
        /\ logsStream = <<>>
        /\ dbFile = IF Cardinality(Range(ks)) = Len(ks)
                    THEN serializeDb(mergeLog(EmptyDb, pairsOf(ks)), ks)
                    ELSE <<>>
        /\ dbStream = <<>>
        /\ valFile = [i \in 1..(SizeofU64 * Len(ks)) |-> 0]
        /\ valBuf = <<>>
        /\ fpos = 0
        /\ rpc = "crashed"
        /\ dpc = "exited"
        /\ request = NoRequest
        /\ response = NoResponse
        /\ restarts = 0
        /\ history = pairsOf(ks)
        /\ written = [k \in Keys |-> get(pairsOf(ks), EmptyDb, k)]
        /\ late = {}
        /\ atEntry = NoEntry
        /\ states = NoStates
        /\ conns = {}
        /\ leaked = {}
        /\ backlog = 0
        /\ events = <<>>
        /\ ev = NoEvent
        /\ closed = FALSE
        /\ rid = 0
        /\ failed = 0
        /\ ctor = NoCtor
        /\ flushes = 0
        /\ handledBefore = 0
        /\ snapDb = EmptyDb
        /\ begun = 0

\* The constructor reading those files, dropThread asleep.
NextPairs ==
    \/ Constructor
    \/ LoadDbCount
    \/ LoadDbEntry
    \/ LoadDbDone
    \/ LoadLogsCount
    \/ LoadLogsEntry
    \/ LoadLogsDone

SpecPairs == InitPairs /\ [][NextPairs]_vars

\* ------------------------------------------------------------------ claims

IsPrefix(s, t) == Len(s) <= Len(t) /\ SubSeq(t, 1, Len(s)) = s

\* What a restart would load from the files as they are.
Recovered == recover(dbFile, logsFile)

\* C1 (last write wins): while the process runs, for every key, get returns
\* the offset passed to the most recent put of the key (or the offset loaded
\* at recovery when the key was not put since), and NULL exactly when the key
\* was neither put nor loaded; whatever puts, dropLogs and snapshots came
\* before.
C1_LastWriteWins == Up => Lookup(pendingLog, db) = written

\* A snapshot is running, the key was put twice, both entries are pending and
\* db still holds the older offset.
C1_Witness ==
    /\ Up
    /\ dropping
    /\ \E k \in Keys :
        /\ k \in DOMAIN db
        /\ db[k] # written[k]
        /\ Len(pendingLog) >= 2
        /\ pendingLog[1].first = k
        /\ pendingLog[2].first = k

C8_SnapshotNonInterference ==
    [][ /\ (Len(history') = Len(history) + 1 /\ dropping)
            => get(pendingLog', db', request'.key)
                   = history'[Len(history')].second
        /\ (rpc = "dl_merge" /\ rpc' = "dl_close" /\ ~dropping)
            => /\ pendingLog' = <<>>
               /\ \A k \in late :
                   /\ k \in DOMAIN db'
                   /\ db'[k] = written[k]
                   /\ get(pendingLog', db', k) = written[k]
      ]_vars

\* A key was put while a snapshot ran; the snapshot is over and dropLogs has
\* merged: pendingLog is empty and db holds the offset.
C8_Witness ==
    /\ rpc = "output"
    /\ ~dropping
    /\ late # {}
    /\ pendingLog = <<>>
    /\ \A k \in late : k \in DOMAIN db /\ db[k] = written[k]

\* C2 (read-your-write at the service): a get of key K served right after
\* put(K, V), in the same input drain and so before any dropLogs, returns V
\* from binaryDb.get, and the value read from the response is V.
C2_ReadYourWrite ==
    [][(request.op = "put" /\ request'.op = "get" /\ request'.key = request.key)
          => (request'.value = request.value
              /\ response'.value = request.value)]_vars

\* C4 (invariant I3): after the destructor (cancel, join, the last dropLogs)
\* and the exit, loading the snapshot file and replaying the log file gives,
\* for every key, the offset get returned for it before the shutdown, which
\* is the offset of its last put.
C4_ShutdownLosesNothing ==
    rpc = "exited" => Lookup(<<>>, Recovered) = written

\* C5 (recovery round trip): when the event loop is between two events (each
\* event served was followed by its dropLogs) and no snapshot is being
\* written, a restart on the files gives the key -> offset mapping get
\* exposes.
C5_RecoveryRoundTrip ==
    (rpc = "idle" /\ dpc \in {"check1", "sleep"})
        => Lookup(<<>>, Recovered) = Lookup(pendingLog, db)

\* No offset was passed to put twice: a (key, offset) pair names one put.
OffsetsDistinct ==
    \A i, j \in 1..Len(history) : i # j => history[i].second # history[j].second

\* The rank, in the order of the puts, of the put that passed (key, offset).
PutNo(key, offset) ==
    CHOOSE i \in 1..Len(history) : history[i] = Pair(key, offset)

\* C6 (the log is newer than the snapshot): whenever the process has
\* stopped, for every key that is in the snapshot file and in the log file,
\* the put recorded in the log file is not older than the put recorded in the
\* snapshot file.
C6_LogNewerThanSnapshot ==
    (~Up /\ OffsetsDistinct)
        => LET snap == loadFile(EmptyDb, dbFile)
               log == loadFile(EmptyDb, logsFile)
           IN  \A k \in DOMAIN snap \cap DOMAIN log :
                   PutNo(k, log[k]) >= PutNo(k, snap[k])

\* C7 (crash safety of dropLogs): at every step inside dropLogs, after the
\* log file was opened, every key the log file recorded when dropLogs began
\* is still loaded by a restart on the files as they are.
C7_FlushCrashSafe ==
    rpc \in {"dl_merge", "dl_close"}
        => \A k \in DOMAIN loadFile(EmptyDb, atEntry) : k \in DOMAIN Recovered

\* C9 (flush idempotence): a dropLogs that found pendingLog empty changes
\* neither what get returns for any key nor what a restart loads: when it
\* returns, the files load what they would load with the log file as
\* dropLogs found it.
C9_EmptyFlushNoOp ==
    [][(rpc = "dl_close" /\ rpc' \in {"output", "return"}
            /\ logsStream = serializeLog(<<>>))
          => /\ Lookup(pendingLog', db') = written
             /\ recover(dbFile', logsFile') = recover(dbFile', atEntry)]_vars

\* C10 (value round trip): the offset a put passes to the index is the end
\* of the value file before the put, where its length field goes, and the
\* record read at that offset is the payload of the put.
C10_ValueRoundTrip ==
    [][Len(history') = Len(history) + 1
          => LET offset == history'[Len(history')].second
             IN  /\ offset = Len(valFile) + Len(valBuf)
                 /\ readValue(valFile' \o valBuf', offset)
                        = [ok |-> TRUE, val |-> request'.value]]_vars

\* The offset of the last entry of log for key, or dflt when it has none.
LastOf(log, key, dflt) ==
    LET hits == { i \in 1..Len(log) : log[i].first = key }
    IN  IF hits = {} THEN dflt
        ELSE log[CHOOSE i \in hits : \A j \in hits : j <= i].second

\* C13 (the effect of dropLogs, case by case): dropLogs empties the log file
\* and writes the pending entries, which read back as pendingLog in order;
\* with no snapshot running it then leaves in db, for every key, the offset of
\* the key's last pending entry (other keys keep theirs) and leaves
\* pendingLog empty; with a snapshot running it leaves pendingLog and db as
\* they are; at its return the log file holds what was written.
C13_FlushLogEffect ==
    [][ /\ (rpc = "dropLogs" /\ rpc' = "dl_merge")
            => /\ logsFile' = <<>>
               /\ readPairs(logsStream') = pendingLog
               /\ pendingLog' = pendingLog /\ db' = db
        /\ (rpc = "dl_merge" /\ rpc' = "dl_close")
            => /\ logsStream' = logsStream
               /\ IF dropping
                  THEN pendingLog' = pendingLog /\ db' = db
                  ELSE /\ pendingLog' = <<>>
                       /\ DOMAIN db' = DOMAIN db \cup { e.first : e \in Range(pendingLog) }
                       /\ \A k \in DOMAIN db' :
                           db'[k] = LastOf(pendingLog, k, IF k \in DOMAIN db THEN db[k] ELSE NULL)
        /\ (rpc = "dl_close" /\ rpc' \in {"output", "return"})
            => /\ readPairs(logsFile') = readPairs(logsStream)
               /\ pendingLog' = pendingLog /\ db' = db
      ]_vars

\* dropLogs has merged, with no snapshot running, two pending entries of one
\* key with different offsets: db holds the later one.
C13_Witness ==
    /\ rpc = "dl_close"
    /\ ~dropping
    /\ pendingLog = <<>>
    /\ LET w == readPairs(logsStream)
       IN  /\ Len(w) = 2
           /\ w[1].first = w[2].first
           /\ w[1].second # w[2].second
           /\ db[w[1].first] = w[2].second

\* The entries of the map m, as a set of pairs.
Entries(m) == { Pair(k, m[k]) : k \in DOMAIN m }

C16_SnapshotThreadShutdown ==
    /\ [](begun <= 1)
    /\ (rpc = "join") ~> (rpc = "dropLogs" /\ dpc = "exited")
    /\ [][(cancelThread /\ rpc = "dl_merge" /\ rpc' = "dl_close")
            => (~dropping /\ pendingLog' = <<>>
                /\ \A k \in Keys : get(<<>>, db', k) = written[k])]_vars

\* The destructor was called when dropper had passed the check after its
\* sleep: one more snapshot was written, dropper returned, and the last
\* dropLogs merged the entries a put had left pending.
C16_Witness ==
    /\ cancelThread
    /\ rpc = "dl_close"
    /\ dpc = "exited"
    /\ begun = 1
    /\ late # {}
    /\ pendingLog = <<>>
    /\ \A k \in late : k \in DOMAIN db /\ db[k] = written[k]

\* C19 (recovery precedes the first snapshot): while the constructor is
\* loading the snapshot file and the log file, dropThread has not set
\* dropping: no dropTable is truncating db.txt or serializing db.
C19_RecoveryBeforeSnapshot == InConstructor => ~dropping

\* C20 (round trip of the pair encoding): the pairs the constructor reads
\* from a file, the count and then one readFromFile per entry, are the pairs
\* that were written to it, in order, whatever the keys (the empty key and
\* keys with white space included).
C20_PairRoundTrip ==
    [][ /\ (rpc = "load_db" /\ rpc' = "ctor_logs" /\ dbFile # <<>>)
            => ctor.got = history
        /\ (rpc = "load_logs" /\ rpc' = "idle")
            => ctor.got = history
      ]_vars

\* C11 (faults at connection granularity): a request whose payload does not
\* decode, or of an unknown type, closes the connection it came on and
\* nothing else: the process goes on, pendingLog, db and the value store are
\* as before, and every other connection stays open with its state.
C11_ConnectionFault ==
    [][(request.op # "bad" /\ request'.op = "bad")
         => /\ Up'
            /\ pendingLog' = pendingLog
            /\ db' = db
            /\ valFile' \o valBuf' = valFile \o valBuf
            /\ conns \ {ev.fd} \subseteq conns'
            /\ \A fd \in DOMAIN states \ {ev.fd} :
                   fd \in DOMAIN states' /\ states'[fd] = states[fd]
      ]_vars

\* The type of the response to a request.
responseType(op) == IF op = "put" THEN "PUT_RESPONSE" ELSE "GET_RESPONSE"

\* C12 (echo of the request id): a get or put request that is handled queues
\* exactly one response on its connection, of the matching type and with the
\* request_id of the request, and leaves the other queues alone; and a
\* response queued on a connection stays queued, until process_output sends
\* it, as long as that connection is not finalized.
C12_RequestIdEcho ==
    [][ /\ (rpc = "input" /\ rpc' = "input")
            => /\ states'[ev.fd] = Append(states[ev.fd],
                                          [type |-> responseType(request'.op),
                                           id |-> rid'])
               /\ \A fd \in DOMAIN states \ {ev.fd} : states'[fd] = states[fd]
        /\ \A fd \in conns \ {ev'.fd} :
               states[fd] # <<>> => fd \in conns' /\ states'[fd] = states[fd]
      ]_vars

\* C14 (dropLogs before the reply): in the body of the for loop, for an event
\* of a connection without EPOLLERR or EPOLLHUP, dropLogs has not been called
\* while process_input runs and has been called exactly once when line 513
\* is reached, with every put handled so far written to logs.txt; and the
\* body ends only from there, whether process_input ran or not and whether
\* it finalized the connection or not.
C14_FlushBeforeReply ==
    /\ [](rpc = "input" => flushes = 0)
    /\ [](rpc = "output"
            => /\ flushes = 1
               /\ \A i \in (handledBefore + 1)..Len(history) :
                      history[i] \in Range(readPairs(logsFile)))
    /\ [][(rpc \notin {"idle", "loop"} /\ rpc' \in {"idle", "loop"})
            => (rpc = "output" /\ flushes = 1)]_vars

\* Line 513 is reached for a readable and writable event whose put was
\* handled: its response is queued, and its entry has been written.
C14_Witness ==
    /\ rpc = "output"
    /\ ev.events = {"IN", "OUT"}
    /\ ~closed
    /\ flushes = 1
    /\ history # <<>>
    /\ Len(history) > handledBefore
    /\ history[Len(history)] \in Range(readPairs(logsFile))
    /\ \E i \in 1..Len(states[ev.fd]) : states[ev.fd][i].type = "PUT_RESPONSE"

\* The connection of descriptor fd is open and has its entry in states.
Tabled(fd) == fd \in conns /\ fd \in DOMAIN states

\* The connection of descriptor fd is closed and has no entry in states.
Finalized(fd) == fd \notin conns /\ fd \notin DOMAIN states

\* C15 (finalization of a connection): an event with EPOLLERR or EPOLLHUP,
\* a process_input or a process_output that returns false close the
\* descriptor and erase its entry of states, and nothing else does;
\* process_input and process_output are called only for a connection that is
\* open and has its entry (states.at never throws), process_output is not
\* called in the iteration whose process_input returned false, and every
\* event of the array still to be handled, the listening socket apart, has
\* its entry.
C15_ConnectionFinalization ==
    /\ [](Up)
    /\ [](\A i \in 1..Len(events) :
              events[i].fd # socketfd => Tabled(events[i].fd))
    /\ [](rpc = "input" => Tabled(ev.fd))
    /\ [](closed => Finalized(ev.fd))
    /\ []((rpc = "output" /\ drainsOutput(ev, closed)) => Tabled(ev.fd))
    /\ [](\A fd \in Fds : Tabled(fd) \/ Finalized(fd))
    /\ [][ /\ (rpc = "loop" /\ isError(ev'))
                  => (ev'.fd \notin conns' /\ ev'.fd \notin DOMAIN states')
           /\ (rpc = "input" /\ rpc' = "dropLogs")
                  => IF closed'
                     THEN ev.fd \notin conns' /\ ev.fd \notin DOMAIN states'
                     ELSE ev.fd \in conns' /\ ev.fd \in DOMAIN states'
           /\ \A fd \in conns \ conns' :
                  /\ fd = ev'.fd
                  /\ fd \notin DOMAIN states'
                  /\ \/ rpc = "loop" /\ isError(ev')
                     \/ rpc = "input" /\ closed'
                     \/ rpc = "output" /\ drainsOutput(ev, closed)
         ]_vars

\* process_input returned false for a readable and writable event: the
\* connection is finalized, line 513 is reached with closed set, and the
\* array holds another event, of a connection that is open.
C15_Witness ==
    /\ rpc = "output"
    /\ closed
    /\ ev.events = {"IN", "OUT"}
    /\ Finalized(ev.fd)
    /\ events # <<>>
    /\ Head(events).fd # socketfd
    /\ Tabled(Head(events).fd)

\* C17 (the accept loop terminates): once main is in the loop of lines
\* 490-497 it leaves it, whatever accept_connection returns, and it leaves
\* it only when no connection is waiting.
C17_AcceptLoopTerminates ==
    /\ (rpc = "accept") ~> (rpc # "accept")
    /\ [][(rpc = "accept" /\ rpc' # "accept") => backlog = 0]_vars

====
